---- MODULE Spec2Model ----
(***************************************************************************)
(* A model of the segmented write-ahead log of ThejasNU/wal.               *)
(*                                                                         *)
(* Segment files are byte sequences.  A record is framed as a 4-byte       *)
(* little-endian length followed by the serialized entry.  The log         *)
(* instance owns a bufio.Writer over the current segment; the directory    *)
(* outlives the instance (Close, process stop, reopen).                    *)
(***************************************************************************)
EXTENDS Integers, Sequences, FiniteSets, TLC

\* ------------------------------------------------------------------ bounds
\* write / checkpoint calls in one behaviour
MaxCalls == 3
\* capacity of the bufio.Writer (bufio's default is 4096 bytes; scaled down
\* with the payloads: two frames fit, a third spills to the file before any
\* flush)
BufSize == 32

\* payloads offered to WriteEntry and to CreateCheckpoint
Payloads == {<<1>>, <<2, 3>>}
CheckpointPayloads == {<<4>>}
\* the arguments offered to GetWAL: enableFsync, maxFileSize (bytes), maxSegments
Configs == { [enableFsync |-> TRUE, maxFileSize |-> 10, maxSegments |-> 1],
             [enableFsync |-> FALSE, maxFileSize |-> 23, maxSegments |-> 2],
             [enableFsync |-> FALSE, maxFileSize |-> 64, maxSegments |-> 1] }
\* records written to the log before it is replayed
MaxWritten == 11
\* records written to the log before its last segment is torn
MaxTorn == 3
\* the arguments of GetWAL for the logs that are replayed
ReplayConfigs == { [enableFsync |-> FALSE, maxFileSize |-> 10, maxSegments |-> 20],
                   [enableFsync |-> FALSE, maxFileSize |-> 23, maxSegments |-> 20],
                   [enableFsync |-> TRUE, maxFileSize |-> 10, maxSegments |-> 2] }
\* what is added (modulo 256) to a payload byte that is altered on disk
Flips == {1, 128}
\* the caller threads, and the write / checkpoint calls they make together
Callers == {"c1", "c2"}
ConcCalls == 2
\* the arguments of GetWAL for the logs that threads share
ConcConfigs == { [enableFsync |-> TRUE, maxFileSize |-> 23, maxSegments |-> 2],
                 [enableFsync |-> FALSE, maxFileSize |-> 10, maxSegments |-> 1] }
\* periodic flushes counted after the cancellation signal (the count stops here)
MaxAfterSignal == 2
\* the system calls a failure can be injected into
FailKinds == {"write", "sync", "close", "remove", "create", "stat"}

Nil == [lsn |-> 0, data |-> <<>>, crc |-> 0, cp |-> FALSE, nil |-> TRUE]
NoWAL == [open |-> FALSE]

\* ------------------------------------------------------------ entry codec
\* the range of the checksum: crc32 is 32 bits wide, the model keeps the low
\* 16 so that the hash arithmetic stays within the checker's integers
CrcRange == 65536

RECURSIVE ChecksumFrom(_, _, _)
ChecksumFrom(bytes, i, h) ==
    IF i > Len(bytes) THEN h
    ELSE ChecksumFrom(bytes, i + 1, (h * 31 + bytes[i] + 1) % CrcRange)

\* crc32.ChecksumIEEE, as a 32-bit hash of the byte sequence
ChecksumIEEE(bytes) == ChecksumFrom(bytes, 1, 7)

\* the bytes the checksum covers: the payload and the low byte of the LSN
CRCInput(data, lsn) == Append(data, lsn % 256)

\* a 32-bit value as 4 little-endian bytes, and back
LE4(n) == << n % 256, (n \div 256) % 256, (n \div 65536) % 256, (n \div 16777216) % 256 >>
UnLE4(b, pos) == b[pos + 1] + 256 * b[pos + 2] + 65536 * b[pos + 3] + 16777216 * b[pos + 4]

NewEntry_ChecksumOfPayload(lsn, data, isCheckpoint) ==
    [lsn |-> lsn, data |-> data, crc |-> ChecksumIEEE(data),
     cp |-> isCheckpoint, nil |-> FALSE]

\* types.WAL_Entry built by writeEntry
NewEntry(lsn, data, isCheckpoint) ==
    [lsn |-> lsn, data |-> data, crc |-> ChecksumIEEE(CRCInput(data, lsn)),
     cp |-> isCheckpoint, nil |-> FALSE]

\* serialized entry: LSN, CRC, checkpoint flag, payload
MarshalHeader == 6
MustMarshal(e) == <<e.lsn>> \o LE4(e.crc) \o <<IF e.cp THEN 1 ELSE 0>> \o e.data

MustUnmarshal(b) ==
    [lsn |-> b[1], data |-> SubSeq(b, MarshalHeader + 1, Len(b)), crc |-> UnLE4(b, 1),
     cp |-> b[6] = 1, nil |-> FALSE]

isValidCRC_Always(e) == TRUE

isValidCRC(e) == ChecksumIEEE(CRCInput(e.data, e.lsn)) = e.crc

UnmarshalAndVerifyEntry(b) ==
    IF Len(b) < MarshalHeader THEN [entry |-> Nil, err |-> TRUE]
    ELSE LET e == MustUnmarshal(b) IN
         IF isValidCRC(e) THEN [entry |-> e, err |-> FALSE]
         ELSE [entry |-> Nil, err |-> TRUE]

\* the frame writeEntryToBuffer puts into the buffer
Frame(e) == LET s == MustMarshal(e) IN LE4(Len(s)) \o s


\* ------------------------------------------------------------------ state
VARIABLES
    files,   \* the directory: segment index -> bytes of segment-<index>
    wal,     \* the WAL instance (NoWAL when no instance is live)
    hist,    \* the records accepted so far, in call order
    last,    \* the last operation and what it returned
    stats,   \* the number of calls, whether the run is free of incidents (injected
             \* I/O failures, process stops), whether retention removed a file
    pc,      \* where each caller thread and the background task stands
    lock,    \* the holder of wal.lock ("free" when nobody holds it)
    obs      \* what was observed of the background task and of Close

\* the state of the threads
conc == <<pc, lock, obs>>

vars == <<files, wal, hist, last, stats, pc, lock, obs>>

\* a world is what the operations below transform: the directory and the
\* instance, with a mark set when an injected failure strikes
World(f, w) == [files |-> f, wal |-> w, hit |-> FALSE]

Max(S) == CHOOSE x \in S : \A y \in S : y <= x

\* ------------------------------------------------- results of operations
\* an operation returns the world it leaves and whether it returned an error
Ok(st) == [st |-> st, err |-> FALSE]
Fail(st) == [st |-> st, err |-> TRUE]

\* if err != nil { return err }: K runs on the world r left when r succeeded
AndThen(r, K(_)) == IF r.err THEN r ELSE K(r.st)

\* E runs when r failed, K when it succeeded
Either(r, E(_), K(_)) == IF r.err THEN E(r.st) ELSE K(r.st)

\* K on a value computed once
With(x, K(_)) == K(x)

\* the injected failure strikes
Strike(st) == [st EXCEPT !.hit = TRUE]

\* ------------------------------------------------------------- os.File
\* Write on the current segment's handle (appends; fails on a closed handle)
FileWrite(st, bytes, f) ==
    IF ~st.wal.handleOpen THEN Fail(st)
    ELSE IF f = "write" THEN Fail(Strike(st))
    ELSE IF st.wal.currentSegment \in DOMAIN st.files
    THEN Ok([st EXCEPT !.files[st.wal.currentSegment] = @ \o bytes])
    ELSE Ok(st)

\* ---------------------------------------------------------- bufio.Writer
\* Writer.Flush: the error is sticky, a failed write keeps the bytes buffered
BufFlush(st, f) ==
    IF st.wal.bufErr THEN Fail(st)
    ELSE IF st.wal.buf = <<>> THEN Ok(st)
    ELSE Either(FileWrite(st, st.wal.buf, f),
                LAMBDA s : Fail([s EXCEPT !.wal.bufErr = TRUE]),
                LAMBDA s : Ok([s EXCEPT !.wal.buf = <<>>]))

\* Writer.Write: bytes that do not fit fill the buffer, which is flushed;
\* a write larger than an empty buffer goes to the file directly
RECURSIVE BufWrite(_, _, _)
BufWrite(st, p, f) ==
    IF Len(p) > BufSize - Len(st.wal.buf) /\ ~st.wal.bufErr
    THEN IF st.wal.buf = <<>>
         THEN Either(FileWrite(st, p, f),
                     LAMBDA s : Fail([s EXCEPT !.wal.bufErr = TRUE]),
                     LAMBDA s : Ok(s))
         ELSE BufWrite(
                  BufFlush([st EXCEPT !.wal.buf =
                                @ \o SubSeq(p, 1, BufSize - Len(st.wal.buf))], f).st,
                  SubSeq(p, BufSize - Len(st.wal.buf) + 1, Len(p)),
                  f)
    ELSE IF st.wal.bufErr THEN Fail(st)
    ELSE Ok([st EXCEPT !.wal.buf = @ \o p])

\* ---------------------------------------------------------------- Flush
resetTimer_Toggles(st) == [st EXCEPT !.wal.timerArmed = ~@]

\* resetTimer: the flush timer is armed again for a full interval
resetTimer(st) == [st EXCEPT !.wal.timerArmed = TRUE]

\* WAL.Flush: drain the buffer, sync when fsync is on, re-arm the timer
Flush(st, f) ==
    AndThen(BufFlush(st, f), LAMBDA s :
        IF s.wal.shouldFsync /\ ~s.wal.handleOpen THEN Fail(s)
        ELSE IF s.wal.shouldFsync /\ f = "sync" THEN Fail(Strike(s))
        ELSE Ok(resetTimer(s)))

\* ------------------------------------------------------- segment store
\* the decimal digits of a segment index, as in the file name segment-<n>
RECURSIVE Digits(_)
Digits(n) == IF n < 10 THEN <<n>> ELSE Append(Digits(n \div 10), n % 10)

\* string order of two file names with the same prefix
RECURSIVE LexLess(_, _)
LexLess(a, b) ==
    IF a = <<>> THEN b # <<>>
    ELSE IF b = <<>> THEN FALSE
    ELSE IF a[1] # b[1] THEN a[1] < b[1]
    ELSE LexLess(Tail(a), Tail(b))

\* filepath.Glob(segment-*): the names of the directory, sorted as strings
RECURSIVE Glob(_)
Glob(indices) ==
    IF indices = {} THEN <<>>
    ELSE LET first == CHOOSE i \in indices :
                        \A j \in indices \ {i} : LexLess(Digits(i), Digits(j))
         IN <<first>> \o Glob(indices \ {first})

\* utils.FindLastSegmentId: the highest index among the names
RECURSIVE FindLastSegmentId(_, _)
FindLastSegmentId(names, lastSegmentId) ==
    IF names = <<>> THEN lastSegmentId
    ELSE FindLastSegmentId(Tail(names),
                           IF names[1] > lastSegmentId THEN names[1] ELSE lastSegmentId)

\* math.MaxInt64, the start value of findOldestSegmentFile (the largest
\* integer of the checker stands for it)
MaxInt64 == 2147483647

\* findOldestSegmentFile: the lowest index among the names
RECURSIVE findOldestSegmentFile(_, _)
findOldestSegmentFile(names, oldestSegmentId) ==
    IF names = <<>> THEN oldestSegmentId
    ELSE findOldestSegmentFile(Tail(names),
                               IF names[1] < oldestSegmentId
                               THEN names[1] ELSE oldestSegmentId)

\* the directory without one of its files
RemoveFile(fs, idx) == [i \in DOMAIN fs \ {idx} |-> fs[i]]

\* the directory with segment-<idx> created or truncated (os.Create)
CreateFile(fs, idx) == [i \in DOMAIN fs \cup {idx} |-> IF i = idx THEN <<>> ELSE fs[i]]

deleteOldestSegment_SparesCheckpoints(st, f) ==
    IF Glob(DOMAIN st.files) = <<>> THEN Ok(st)
    ELSE IF f = "remove" THEN Fail(Strike(st))
    ELSE IF /\ Len(st.files[findOldestSegmentFile(Glob(DOMAIN st.files), MaxInt64)])
                    >= 4 + MarshalHeader
            /\ st.files[findOldestSegmentFile(Glob(DOMAIN st.files), MaxInt64)]
                    [4 + MarshalHeader] = 1
    THEN Ok(st)
    ELSE Ok([st EXCEPT !.files =
                 RemoveFile(@, findOldestSegmentFile(Glob(DOMAIN st.files), MaxInt64))])

\* deleteOldestSegment: remove the lowest-index file, nothing when there is none
deleteOldestSegment(st, f) ==
    IF Glob(DOMAIN st.files) = <<>> THEN Ok(st)
    ELSE IF f = "remove" THEN Fail(Strike(st))
    ELSE Ok([st EXCEPT !.files =
                 RemoveFile(@, findOldestSegmentFile(Glob(DOMAIN st.files), MaxInt64))])

\* the retention test of changeLogSegment, on the index already advanced
OverRetention(currentSegmentIndex, maxSegmentsNumber) ==
    currentSegmentIndex > maxSegmentsNumber

\* changeLogSegment: flush, close, advance the index, retire, create, rebind
changeLogSegment(st, f) ==
    AndThen(Flush(st, f), LAMBDA a :
    AndThen(IF f = "close"
            THEN Fail(Strike([a EXCEPT !.wal.handleOpen = FALSE]))
            ELSE Ok([a EXCEPT !.wal.handleOpen = FALSE,
                              !.wal.currentSegmentIndex = @ + 1]), LAMBDA b :
    AndThen(IF OverRetention(b.wal.currentSegmentIndex, b.wal.maxSegmentsNumber)
            THEN deleteOldestSegment(b, f)
            ELSE Ok(b), LAMBDA c :
    IF f = "create" THEN Fail(Strike(c))
    ELSE Ok([c EXCEPT !.files = CreateFile(@, c.wal.currentSegmentIndex),
                      !.wal.currentSegment = c.wal.currentSegmentIndex,
                      !.wal.handleOpen = TRUE,
                      !.wal.buf = <<>>,
                      !.wal.bufErr = FALSE]))))

\* the size Stat reports for the current segment's handle
StatSize(st) ==
    IF st.wal.currentSegment \in DOMAIN st.files
    THEN Len(st.files[st.wal.currentSegment]) ELSE 0

NeedsRotation_Strict(size, buffered, maxSegmentSize) == size + buffered > maxSegmentSize

\* the rotation test of changeLogSegmentIfNeeded
NeedsRotation(size, buffered, maxSegmentSize) == size + buffered >= maxSegmentSize

changeLogSegmentIfNeeded(st, f) ==
    IF ~st.wal.handleOpen THEN Fail(st)
    ELSE IF f = "stat" THEN Fail(Strike(st))
    ELSE IF NeedsRotation(StatSize(st), Len(st.wal.buf), st.wal.maxSegmentSize)
    THEN changeLogSegment(st, f)
    ELSE Ok(st)

\* ----------------------------------------------------------- append path
\* writeEntryToBuffer: the length, then the serialized entry
writeEntryToBuffer(st, entry, f) ==
    AndThen(BufWrite(st, LE4(Len(MustMarshal(entry))), f), LAMBDA s :
        BufWrite(s, MustMarshal(entry), f))

NextSequenceNumber_SkipsOne(lastSequenceNumber) == lastSequenceNumber + 2

\* the sequence number writeEntry assigns
NextSequenceNumber(lastSequenceNumber) == lastSequenceNumber + 1

FlushesFirst_Never(isCheckpoint) == FALSE

\* whether writeEntry flushes before it frames the entry
FlushesFirst(isCheckpoint) == isCheckpoint

\* writeEntry, under the lock
writeEntry(st, data, isCheckpoint, f) ==
    AndThen(changeLogSegmentIfNeeded(st, f), LAMBDA a :
    AndThen(Ok([a EXCEPT !.wal.lastSequenceNumber = NextSequenceNumber(@)]), LAMBDA b :
    AndThen(IF FlushesFirst(isCheckpoint) THEN Flush(b, f) ELSE Ok(b), LAMBDA c :
    writeEntryToBuffer(c, NewEntry(c.wal.lastSequenceNumber, data, isCheckpoint), f))))

\* ------------------------------------------------------- recovery reader
BinaryReadByValue_AlwaysEOF(file, pos) == "EOF"

\* binary.Read(file, order, size) with size passed by value, as
\* getLastEntryInCurrentSegment calls it: four bytes are consumed when they
\* are there, and the call then fails because the target is no pointer
BinaryReadByValue(file, pos) ==
    IF Len(file) - pos = 0 THEN "EOF"
    ELSE IF Len(file) - pos < 4 THEN "ErrUnexpectedEOF"
    ELSE "InvalidType"

\* getLastEntryInCurrentSegment: the first length read decides the outcome,
\* the loop body after it is never reached (offset is still 0 at EOF)
getLastEntryInCurrentSegment(file) ==
    LET r == BinaryReadByValue(file, 0) IN
    IF r = "EOF" THEN [entry |-> Nil, err |-> FALSE]
    ELSE [entry |-> Nil, err |-> TRUE]

getLastSequenceNumber(file) ==
    LET r == getLastEntryInCurrentSegment(file) IN
    IF r.err THEN [lsn |-> 0, err |-> TRUE]
    ELSE IF ~r.entry.nil THEN [lsn |-> r.entry.lsn, err |-> FALSE]
    ELSE [lsn |-> 0, err |-> FALSE]

\* whether readAllEntriesFromFile restarts its result at this entry
RestartsAt(entry, fromCheckPoint) == entry.cp /\ fromCheckPoint

RECURSIVE readAllEntriesFromFile_StopsAtTornFrame(_, _, _, _, _)
readAllEntriesFromFile_StopsAtTornFrame(file, pos, entries, checkPointLSN, fromCheckPoint) ==
    LET left == Len(file) - pos IN
    IF left = 0 \/ left < 4 \/ left - 4 < UnLE4(file, pos)
    THEN [entries |-> entries, checkPointLSN |-> checkPointLSN, err |-> FALSE]
    ELSE LET size == UnLE4(file, pos)
             u == UnmarshalAndVerifyEntry(SubSeq(file, pos + 5, pos + 4 + size))
         IN IF u.err
            THEN [entries |-> entries, checkPointLSN |-> checkPointLSN, err |-> TRUE]
            ELSE IF RestartsAt(u.entry, fromCheckPoint)
            THEN readAllEntriesFromFile_StopsAtTornFrame(file, pos + 4 + size, <<u.entry>>,
                                                         u.entry.lsn, fromCheckPoint)
            ELSE readAllEntriesFromFile_StopsAtTornFrame(file, pos + 4 + size,
                                                         Append(entries, u.entry),
                                                         checkPointLSN, fromCheckPoint)

\* readAllEntriesFromFile: frames from offset 0 until a clean end of file
RECURSIVE readAllEntriesFromFile(_, _, _, _, _)
readAllEntriesFromFile(file, pos, entries, checkPointLSN, fromCheckPoint) ==
    LET left == Len(file) - pos IN
    IF left = 0 THEN [entries |-> entries, checkPointLSN |-> checkPointLSN, err |-> FALSE]
    ELSE IF left < 4 \/ left - 4 < UnLE4(file, pos)
    THEN [entries |-> entries, checkPointLSN |-> checkPointLSN, err |-> TRUE]
    ELSE LET size == UnLE4(file, pos)
             u == UnmarshalAndVerifyEntry(SubSeq(file, pos + 5, pos + 4 + size))
         IN IF u.err
            THEN [entries |-> entries, checkPointLSN |-> checkPointLSN, err |-> TRUE]
            ELSE IF RestartsAt(u.entry, fromCheckPoint)
            THEN readAllEntriesFromFile(file, pos + 4 + size, <<u.entry>>,
                                        u.entry.lsn, fromCheckPoint)
            ELSE readAllEntriesFromFile(file, pos + 4 + size, Append(entries, u.entry),
                                        checkPointLSN, fromCheckPoint)

NoCheckpointFound_Inverted(fromCheckpoint, checkPointLSN) ==
    fromCheckpoint /\ checkPointLSN >= 0

NoCheckpointFound_Never(fromCheckpoint, checkPointLSN) == FALSE

\* whether ReadAllFromCurrent answers with the empty slice
NoCheckpointFound(fromCheckpoint, checkPointLSN) == fromCheckpoint /\ checkPointLSN <= 0

ReadAllFromCurrent(st, fromCheckpoint) ==
    IF st.wal.currentSegment \notin DOMAIN st.files THEN [entries |-> <<>>, err |-> TRUE]
    ELSE LET r == readAllEntriesFromFile(st.files[st.wal.currentSegment], 0, <<>>, 0,
                                         fromCheckpoint)
         IN IF r.err THEN [entries |-> r.entries, err |-> TRUE]
            ELSE IF NoCheckpointFound(fromCheckpoint, r.checkPointLSN)
            THEN [entries |-> <<>>, err |-> FALSE]
            ELSE [entries |-> r.entries, err |-> FALSE]

SkipsSegment_OffByOne(segmentIdx, index) == segmentIdx <= index

\* whether ReadAllFromIndex skips a segment
SkipsSegment(segmentIdx, index) == segmentIdx < index

\* the loop of ReadAllFromIndex over the globbed names
RECURSIVE ReadSegments(_, _, _, _, _, _)
ReadSegments(fs, names, index, fromCheckpoint, entries, prevCheckPointLSN) ==
    IF names = <<>> THEN [entries |-> entries, err |-> FALSE]
    ELSE IF SkipsSegment(names[1], index)
    THEN ReadSegments(fs, Tail(names), index, fromCheckpoint, entries, prevCheckPointLSN)
    ELSE LET r == readAllEntriesFromFile(fs[names[1]], 0, <<>>, 0, fromCheckpoint) IN
         IF r.err THEN [entries |-> entries, err |-> TRUE]
         ELSE IF fromCheckpoint /\ r.checkPointLSN > prevCheckPointLSN
         THEN ReadSegments(fs, Tail(names), index, fromCheckpoint,
                           r.entries, r.checkPointLSN)
         ELSE ReadSegments(fs, Tail(names), index, fromCheckpoint,
                           entries \o r.entries, prevCheckPointLSN)

ReadAllFromIndex(st, index, fromCheckpoint) ==
    ReadSegments(st.files, Glob(DOMAIN st.files), index, fromCheckpoint, <<>>, 0)

\* ------------------------------------------------------------ open, close
\* the instance GetWAL builds
NewWAL(lastSegmentId, lsn, enableFsync, maxFileSize, maxSegments) ==
    [open |-> TRUE,
     currentSegment |-> lastSegmentId,
     handleOpen |-> TRUE,
     lastSequenceNumber |-> lsn,
     buf |-> <<>>,
     bufErr |-> FALSE,
     timerArmed |-> TRUE,
     shouldFsync |-> enableFsync,
     maxSegmentSize |-> maxFileSize,
     maxSegmentsNumber |-> maxSegments,
     currentSegmentIndex |-> lastSegmentId,
     ctxDone |-> FALSE]

\* the index GetWAL binds to: the highest present, 0 in an empty directory
LastSegmentId(fs) ==
    IF Len(Glob(DOMAIN fs)) > 0 THEN FindLastSegmentId(Glob(DOMAIN fs), 0) ELSE 0

\* the directory once GetWAL has opened (or created) its last segment
Opened(fs) ==
    IF LastSegmentId(fs) \in DOMAIN fs THEN fs ELSE CreateFile(fs, LastSegmentId(fs))

\* GetWAL: bind to the highest-index segment (created when the directory is
\* fresh) and recover the sequence counter from it
GetWAL(fs, enableFsync, maxFileSize, maxSegments, f) ==
    IF f = "create" THEN Fail(Strike(World(fs, NoWAL)))
    ELSE IF getLastSequenceNumber(Opened(fs)[LastSegmentId(fs)]).err
    THEN Fail(World(Opened(fs), NoWAL))
    ELSE Ok(World(Opened(fs),
                  NewWAL(LastSegmentId(fs),
                         getLastSequenceNumber(Opened(fs)[LastSegmentId(fs)]).lsn,
                         enableFsync, maxFileSize, maxSegments)))

\* Close: cancel the context, flush once more, close the segment handle
Close(st, f) ==
    AndThen(Flush([st EXCEPT !.wal.ctxDone = TRUE], f), LAMBDA s :
        IF ~s.wal.handleOpen THEN Fail(s)
        ELSE IF f = "close" THEN Fail(Strike([s EXCEPT !.wal.handleOpen = FALSE]))
        ELSE Ok([s EXCEPT !.wal.handleOpen = FALSE]))

\* ---------------------------------------------------------------- actions
Failures == FailKinds \cup {"none"}

\* a failure is injected only where it strikes
Injected(f, hit) == (f # "none") = hit

\* what the last operation was and returned; injected: a failure was injected
\* into it; again: it is a Flush that follows a successful Flush directly
Outcome(op, ok, lsn, entries, fromCheckpoint, index) ==
    [op |-> op, ok |-> ok, lsn |-> lsn, entries |-> entries,
     fromCheckpoint |-> fromCheckpoint, index |-> index,
     injected |-> FALSE, again |-> FALSE]

\* the outcome of a Flush, by a caller or by the background task
FlushOutcome(ok, f) ==
    [Outcome("Flush", ok, 0, <<>>, FALSE, 0)
        EXCEPT !.injected = f # "none",
               !.again = last.op = "Flush" /\ last.ok]

\* the threads: the callers and the goroutine GetWAL starts
Task == "task"
Threads == Callers \cup {Task}

\* no caller is in a call, the task is at its select
ThreadsAtRest ==
    /\ pc = [t \in Threads |-> IF t = Task THEN "select" ELSE "idle"]
    /\ lock = "free"
    /\ obs = [afterSignal |-> 0, logged |-> FALSE, closedAt |-> -1]

Init ==
    /\ files = << >>
    /\ wal = NoWAL
    /\ hist = << >>
    /\ last = Outcome("none", TRUE, 0, <<>>, FALSE, 0)
    /\ stats = [calls |-> 0, clean |-> TRUE, retired |-> FALSE]
    /\ ThreadsAtRest

\* GetWAL(directory, enableFsync, maxFileSize, maxSegments)
Open ==
    /\ ~wal.open
    /\ \E c \in Configs, f \in {"none", "create"} :
         LET r == GetWAL(files, c.enableFsync, c.maxFileSize, c.maxSegments, f) IN
         /\ Injected(f, r.st.hit)
         /\ files' = r.st.files
         /\ wal' = r.st.wal
         /\ last' = [Outcome("GetWAL", ~r.err, 0, <<>>, FALSE, 0)
                        EXCEPT !.injected = f # "none"]
         /\ stats' = [stats EXCEPT !.clean = @ /\ f = "none"]
         /\ UNCHANGED <<hist, conc>>

\* the step of WriteEntry and of CreateCheckpoint
Append1(op, data, isCheckpoint, f) ==
    LET r == writeEntry(World(files, wal), data, isCheckpoint, f) IN
    /\ Injected(f, r.st.hit)
    /\ files' = r.st.files
    /\ wal' = r.st.wal
    /\ hist' = IF r.err THEN hist
               ELSE Append(hist, [lsn |-> r.st.wal.lastSequenceNumber, data |-> data,
                                  cp |-> isCheckpoint, seg |-> r.st.wal.currentSegment])
    /\ last' = Outcome(op, ~r.err, r.st.wal.lastSequenceNumber, <<>>, FALSE, 0)
    /\ stats' = [stats EXCEPT !.calls = @ + 1, !.clean = @ /\ f = "none",
                              !.retired = @ \/ (DOMAIN files \ DOMAIN r.st.files # {})]
    /\ UNCHANGED conc

WriteEntry ==
    /\ wal.open
    /\ stats.calls < MaxCalls
    /\ \E data \in Payloads, f \in Failures : Append1("WriteEntry", data, FALSE, f)

CreateCheckpoint ==
    /\ wal.open
    /\ stats.calls < MaxCalls
    /\ \E data \in CheckpointPayloads, f \in Failures : Append1("CreateCheckpoint", data, TRUE, f)

\* an explicit Flush()
FlushCall ==
    /\ wal.open
    /\ \E f \in {"none", "write", "sync"} :
         LET r == Flush(World(files, wal), f) IN
         /\ Injected(f, r.st.hit)
         /\ files' = r.st.files
         /\ wal' = r.st.wal
         /\ last' = FlushOutcome(~r.err, f)
         /\ stats' = [stats EXCEPT !.clean = @ /\ f = "none"]
         /\ UNCHANGED <<hist, conc>>

\* keepSyncing: the timer fires and the task flushes under the lock
SyncTick ==
    /\ wal.open
    /\ wal.timerArmed
    /\ ~wal.ctxDone
    /\ \E f \in {"none", "write", "sync"} :
         LET r == Flush(World(files, [wal EXCEPT !.timerArmed = FALSE]), f) IN
         /\ Injected(f, r.st.hit)
         /\ files' = r.st.files
         /\ wal' = r.st.wal
         /\ last' = FlushOutcome(~r.err, f)
         /\ stats' = [stats EXCEPT !.clean = @ /\ f = "none"]
         /\ UNCHANGED <<hist, conc>>

\* Close(): after a successful close the instance is gone
CloseCall ==
    /\ wal.open
    /\ \E f \in {"none", "write", "sync", "close"} :
         LET r == Close(World(files, wal), f) IN
         /\ Injected(f, r.st.hit)
         /\ files' = r.st.files
         /\ wal' = IF r.err THEN r.st.wal ELSE NoWAL
         /\ last' = Outcome("Close", ~r.err, wal.lastSequenceNumber, <<>>, FALSE, 0)
         /\ stats' = [stats EXCEPT !.clean = @ /\ f = "none"]
         /\ UNCHANGED <<hist, conc>>

\* the process stops: the instance and its unflushed buffer are lost
Crash ==
    /\ wal.open
    /\ wal' = NoWAL
    /\ last' = Outcome("Crash", TRUE, 0, <<>>, FALSE, 0)
    /\ stats' = [stats EXCEPT !.clean = FALSE]
    /\ UNCHANGED <<files, hist, conc>>

ReadCurrent ==
    /\ wal.open
    /\ \E fromCheckpoint \in BOOLEAN :
         LET r == ReadAllFromCurrent(World(files, wal), fromCheckpoint) IN
         last' = Outcome("ReadAllFromCurrent", ~r.err, 0, r.entries, fromCheckpoint, 0)
    /\ UNCHANGED <<files, wal, hist, stats, conc>>

ReadIndex ==
    /\ wal.open
    /\ \E fromCheckpoint \in BOOLEAN, index \in DOMAIN files \cup {0} :
         LET r == ReadAllFromIndex(World(files, wal), index, fromCheckpoint) IN
         last' = Outcome("ReadAllFromIndex", ~r.err, 0, r.entries, fromCheckpoint, index)
    /\ UNCHANGED <<files, wal, hist, stats, conc>>

Next ==
    \/ Open
    \/ WriteEntry
    \/ CreateCheckpoint
    \/ FlushCall
    \/ SyncTick
    \/ CloseCall
    \/ Crash
    \/ ReadCurrent
    \/ ReadIndex

Spec == Init /\ [][Next]_vars

\* ------------------------------------------------- replay of a written log
\* the k-th call of a run of WriteEntry / CreateCheckpoint calls in which the
\* calls cpA and cpB (0: none) are checkpoints
IsCheckpointCall(k, cpA, cpB) == k = cpA \/ k = cpB

CallData(k, cpA, cpB) ==
    IF IsCheckpointCall(k, cpA, cpB) THEN <<4>>
    ELSE IF k % 2 = 1 THEN <<1>> ELSE <<2, 3>>

\* the log after the calls k..n, each successful, with the records accepted
RECURSIVE WriteAll(_, _, _, _, _, _)
WriteAll(st, accepted, k, n, cpA, cpB) ==
    IF k > n THEN [st |-> st, hist |-> accepted]
    ELSE With(writeEntry(st, CallData(k, cpA, cpB), IsCheckpointCall(k, cpA, cpB), "none").st,
              LAMBDA s :
                WriteAll(s,
                         Append(accepted,
                                [lsn |-> s.wal.lastSequenceNumber,
                                 data |-> CallData(k, cpA, cpB),
                                 cp |-> IsCheckpointCall(k, cpA, cpB),
                                 seg |-> s.wal.currentSegment]),
                         k + 1, n, cpA, cpB))

\* GetWAL on an empty directory, n calls, Flush
WrittenLog(c, n, cpA, cpB) ==
    With(WriteAll(GetWAL(<< >>, c.enableFsync, c.maxFileSize, c.maxSegments, "none").st,
                  << >>, 1, n, cpA, cpB),
         LAMBDA w : [st |-> Flush(w.st, "none").st, hist |-> w.hist])

ReplayInit ==
    \E c \in ReplayConfigs, n \in 0..MaxWritten :
        \E cpA \in 0..n, cpB \in 0..n :
            /\ (cpA = 0 => cpB = 0) /\ (cpB # 0 => cpA < cpB)
            /\ files = WrittenLog(c, n, cpA, cpB).st.files
            /\ wal = WrittenLog(c, n, cpA, cpB).st.wal
            /\ hist = WrittenLog(c, n, cpA, cpB).hist
            /\ stats = [calls |-> n, clean |-> TRUE,
                        retired |-> \E k \in 1..n : hist[k].seg \notin DOMAIN files]
            /\ last = Outcome("none", TRUE, 0, <<>>, FALSE, 0)
            /\ ThreadsAtRest

\* the whole frames a file holds, a torn tail left out
RECURSIVE StoredFrom(_, _)
StoredFrom(file, pos) ==
    IF Len(file) - pos < 4 THEN <<>>
    ELSE LET size == UnLE4(file, pos) IN
         IF Len(file) - pos - 4 < size THEN <<>>
         ELSE <<MustUnmarshal(SubSeq(file, pos + 5, pos + 4 + size))>>
                  \o StoredFrom(file, pos + 4 + size)

Stored(i) == StoredFrom(files[i], 0)

\* the offset of the k-th whole frame of a file
RECURSIVE FrameOffset(_, _, _)
FrameOffset(file, k, pos) ==
    IF k = 1 THEN pos ELSE FrameOffset(file, k - 1, pos + 4 + UnLE4(file, pos))

\* the payload of a stored record is altered on disk, in one byte
Tamper ==
    /\ stats.clean
    /\ last.op = "none"
    /\ \E i \in DOMAIN files :
         \E k \in 1..Len(Stored(i)) :
            \E j \in 1..Len(Stored(i)[k].data), d \in Flips :
                files' = [files EXCEPT
                            ![i][FrameOffset(files[i], k, 0) + 4 + MarshalHeader + j] =
                                (@ + d) % 256]
    /\ last' = Outcome("Tamper", TRUE, 0, <<>>, FALSE, 0)
    /\ stats' = [stats EXCEPT !.clean = FALSE]
    /\ UNCHANGED <<wal, hist, conc>>

\* one read of the log, as it was written, as it was altered or as it was torn
ReplayCurrent ==
    /\ last.op \in {"none", "Tamper", "Tear"}
    /\ ReadCurrent

ReplayIndex ==
    /\ last.op \in {"none", "Tamper", "Tear"}
    /\ ReadIndex

ReplayNext ==
    \/ ReplayCurrent
    \/ ReplayIndex
    \/ Tamper

ReplaySpec == ReplayInit /\ [][ReplayNext]_vars

\* ------------------------------------------------------------ torn segments
\* a short log was written and flushed
TornInit == ReplayInit /\ stats.calls <= MaxTorn

\* the write of the last bytes did not reach the disk whole: the segment the
\* log appends to ends at any byte
Tear ==
    /\ stats.clean
    /\ last.op = "none"
    /\ wal.currentSegment \in DOMAIN files
    /\ \E n \in 0..(Len(files[wal.currentSegment]) - 1) :
         files' = [files EXCEPT ![wal.currentSegment] = SubSeq(@, 1, n)]
    /\ last' = Outcome("Tear", TRUE, 0, <<>>, FALSE, 0)
    /\ stats' = [stats EXCEPT !.clean = FALSE]
    /\ UNCHANGED <<wal, hist, conc>>

TornNext ==
    \/ ReplayCurrent
    \/ ReplayIndex
    \/ Tear

TornSpec == TornInit /\ [][TornNext]_vars

\* ------------------------------------------------------ threads on one log
\* Callers call WriteEntry, CreateCheckpoint, Flush and Close on one instance
\* while the goroutine of keepSyncing runs. A thread's position says which
\* call it is in; wal.lock is held only where the code takes it.

\* GetWAL on an empty directory has returned and started keepSyncing
ConcInit ==
    \E c \in ConcConfigs :
        /\ files = GetWAL(<< >>, c.enableFsync, c.maxFileSize, c.maxSegments, "none").st.files
        /\ wal = GetWAL(<< >>, c.enableFsync, c.maxFileSize, c.maxSegments, "none").st.wal
        /\ hist = << >>
        /\ last = Outcome("GetWAL", TRUE, 0, <<>>, FALSE, 0)
        /\ stats = [calls |-> 0, clean |-> TRUE, retired |-> FALSE]
        /\ ThreadsAtRest

\* Close has not been called yet
NotClosing == obs.closedAt = -1

\* writeEntry: wal.lock.Lock() succeeds
LockWrite(c) ==
    /\ pc[c] = "idle"
    /\ NotClosing
    /\ stats.calls < ConcCalls
    /\ lock = "free"
    /\ lock' = c
    /\ pc' = [pc EXCEPT ![c] = "write.cs"]
    /\ stats' = [stats EXCEPT !.calls = @ + 1]
    /\ UNCHANGED <<files, wal, hist, last, obs>>

\* writeEntry: the body runs and the deferred Unlock releases the lock
EndWrite(c) ==
    /\ pc[c] = "write.cs"
    /\ \E isCheckpoint \in BOOLEAN :
        \E data \in (IF isCheckpoint THEN CheckpointPayloads ELSE {<<1>>}) :
         LET r == writeEntry(World(files, wal), data, isCheckpoint, "none") IN
         /\ files' = r.st.files
         /\ wal' = r.st.wal
         /\ hist' = IF r.err THEN hist
                    ELSE Append(hist, [lsn |-> r.st.wal.lastSequenceNumber, data |-> data,
                                       cp |-> isCheckpoint, seg |-> r.st.wal.currentSegment])
         /\ stats' = [stats EXCEPT
                         !.retired = @ \/ (DOMAIN files \ DOMAIN r.st.files # {})]
    /\ lock' = "free"
    /\ pc' = [pc EXCEPT ![c] = "idle"]
    /\ UNCHANGED <<last, obs>>

\* a caller enters Flush(): no lock is taken
BeginFlush(c) ==
    /\ pc[c] = "idle"
    /\ NotClosing
    /\ pc' = [pc EXCEPT ![c] = "flush.cs"]
    /\ UNCHANGED <<files, wal, hist, last, stats, lock, obs>>

\* the caller's Flush() drains the buffer, syncs, re-arms the timer, returns
EndFlush(c) ==
    /\ pc[c] = "flush.cs"
    /\ files' = Flush(World(files, wal), "none").st.files
    /\ wal' = Flush(World(files, wal), "none").st.wal
    /\ pc' = [pc EXCEPT ![c] = "idle"]
    /\ UNCHANGED <<hist, last, stats, lock, obs>>

\* Close(): wal.cancel()
BeginClose(c) ==
    /\ pc[c] = "idle"
    /\ NotClosing
    /\ wal' = [wal EXCEPT !.ctxDone = TRUE]
    /\ obs' = [obs EXCEPT !.closedAt = Len(hist)]
    /\ pc' = [pc EXCEPT ![c] = "close.flush"]
    /\ UNCHANGED <<files, hist, last, stats, lock>>

\* Close(): wal.Flush(), without the lock; an error is returned to the caller
CloseFlush(c) ==
    /\ pc[c] = "close.flush"
    /\ files' = Flush(World(files, wal), "none").st.files
    /\ wal' = Flush(World(files, wal), "none").st.wal
    /\ pc' = [pc EXCEPT ![c] = IF Flush(World(files, wal), "none").err
                                 THEN "close.failed" ELSE "close.release"]
    /\ UNCHANGED <<hist, last, stats, lock, obs>>

\* Close(): wal.currentSegment.Close(), without the lock
CloseRelease(c) ==
    /\ pc[c] = "close.release"
    /\ wal' = [wal EXCEPT !.handleOpen = FALSE]
    /\ pc' = [pc EXCEPT ![c] = "closed"]
    /\ UNCHANGED <<files, hist, last, stats, lock, obs>>

\* case <-wal.ctx.Done() can be taken
DoneReady == wal.ctxDone

\* case <-wal.flushTimer.C can be taken: the one-shot timer has expired
TimerReady == wal.timerArmed

\* keepSyncing: select takes the timer case (either case when both are ready)
TimerCase ==
    /\ pc[Task] = "select"
    /\ TimerReady
    /\ wal' = [wal EXCEPT !.timerArmed = FALSE]
    /\ pc' = [pc EXCEPT ![Task] = "lock"]
    /\ obs' = [obs EXCEPT !.afterSignal =
                  IF wal.ctxDone /\ @ < MaxAfterSignal THEN @ + 1 ELSE @]
    /\ UNCHANGED <<files, hist, last, stats, lock>>

\* keepSyncing: wal.lock.Lock() succeeds
TaskLock ==
    /\ pc[Task] = "lock"
    /\ lock = "free"
    /\ lock' = Task
    /\ pc' = [pc EXCEPT ![Task] = "flush"]
    /\ UNCHANGED <<files, wal, hist, last, stats, obs>>

\* keepSyncing: wal.Flush(), wal.lock.Unlock(), the error is logged
TaskFlush ==
    /\ pc[Task] = "flush"
    /\ \E f \in {"none", "write", "sync"} :
         LET r == Flush(World(files, wal), f) IN
         /\ Injected(f, r.st.hit)
         /\ files' = r.st.files
         /\ wal' = r.st.wal
         /\ obs' = [obs EXCEPT !.logged = r.err]
         /\ stats' = [stats EXCEPT !.clean = @ /\ f = "none"]
    /\ lock' = "free"
    /\ pc' = [pc EXCEPT ![Task] = "select"]
    /\ UNCHANGED <<hist, last>>

\* keepSyncing: select takes the Done case and the goroutine returns
DoneCase ==
    /\ pc[Task] = "select"
    /\ DoneReady
    /\ pc' = [pc EXCEPT ![Task] = "exited"]
    /\ UNCHANGED <<files, wal, hist, last, stats, lock, obs>>

CallerNext ==
    \E c \in Callers :
        \/ LockWrite(c)
        \/ EndWrite(c)
        \/ BeginFlush(c)
        \/ EndFlush(c)
        \/ BeginClose(c)
        \/ CloseFlush(c)
        \/ CloseRelease(c)

keepSyncing ==
    \/ TimerCase
    \/ TaskLock
    \/ TaskFlush
    \/ DoneCase

ConcNext ==
    \/ CallerNext
    \/ keepSyncing

ConcSpec == ConcInit /\ [][ConcNext]_vars

\* the writer that holds the lock returns: what EndWrite does to the threads
WriterReturns ==
    \E c \in Callers :
        /\ pc[c] = "write.cs"
        /\ pc' = [pc EXCEPT ![c] = "idle"]
        /\ lock' = "free"

\* the scheduler runs every goroutine that can take a step; select chooses
\* at random among its ready cases, so a case that is ready again and again
\* is taken in the end
FairConcSpec ==
    /\ ConcSpec
    /\ WF_vars(TaskLock)
    /\ WF_vars(TaskFlush)
    /\ SF_vars(DoneCase)
    /\ WF_pc(WriterReturns)

\* ------------------------------------------------------------ properties
WriteOps == {"WriteEntry", "CreateCheckpoint"}

\* the entry a record of the history was framed as
AsEntry(h) == NewEntry(h.lsn, h.data, h.cp)
AsEntries(hs) == [k \in 1..Len(hs) |-> AsEntry(hs[k])]

\* the file is a run of whole frames
RECURSIVE WholeFrames(_, _)
WholeFrames(bytes, pos) ==
    \/ Len(bytes) = pos
    \/ /\ Len(bytes) - pos >= 4
       /\ Len(bytes) - pos - 4 >= UnLE4(bytes, pos)
       /\ WholeFrames(bytes, pos + 4 + UnLE4(bytes, pos))

Range(seq) == {seq[k] : k \in 1..Len(seq)}

\* the accepted records that were framed into the current segment
InCurrent == SelectSeq(hist, LAMBDA h : h.seg = wal.currentSegment)

HasCheckpoint(hs) == \E k \in 1..Len(hs) : hs[k].cp
FromLastCheckpoint(hs) ==
    SubSeq(hs, Max({k \in 1..Len(hs) : hs[k].cp}), Len(hs))

IsSuffix(s, t) == Len(s) <= Len(t) /\ s = SubSeq(t, Len(t) - Len(s) + 1, Len(t))

\* C1: on a fresh log, with every call successful, the k-th WriteEntry or
\* CreateCheckpoint call is assigned sequence number k, however writes,
\* checkpoints and rotations are mixed.
C1_SequenceNumbersCountCalls ==
    stats.clean =>
        /\ \A k \in 1..Len(hist) : hist[k].lsn = k
        /\ (last.op \in WriteOps /\ last.ok => last.lsn = stats.calls)

C1_Witness ==
    /\ stats.clean
    /\ last.op = "CreateCheckpoint" /\ last.ok /\ last.lsn = 3
    /\ wal.currentSegmentIndex >= 1
    /\ \E k \in 1..Len(hist) : ~hist[k].cp

\* C2: a log closed with Close at last sequence number n >= 1 and opened
\* again with GetWAL on the same directory opens successfully, with the
\* counter at n, so that the first write after it is assigned n + 1.
C2_ReopenContinues ==
    [][ (/\ last.op = "Close" /\ last.ok /\ last.lsn >= 1
         /\ last'.op = "GetWAL"
         /\ stats'.clean)
        => (last'.ok /\ wal'.open /\ wal'.lastSequenceNumber = last.lsn) ]_vars

\* C3: over writes, checkpoints, rotations, closes, process stops and
\* reopens, no two records stored in the segment files of the directory carry
\* the same sequence number.
C3_NoSequenceNumberReuse ==
    \A i \in DOMAIN files, j \in DOMAIN files :
        \A a \in 1..Len(Stored(i)), b \in 1..Len(Stored(j)) :
            Stored(i)[a].lsn = Stored(j)[b].lsn => i = j /\ a = b

\* C4: after writes and checkpoints into the current segment, at least one
\* of them a checkpoint, and a flush, ReadAllFromCurrent(true) returns the
\* records from the most recent checkpoint (inclusive) to the last record
\* written, in write order.
C4_CurrentFromCheckpoint ==
    (/\ last.op = "ReadAllFromCurrent" /\ last.fromCheckpoint
     /\ stats.clean
     /\ wal.buf = <<>>
     /\ HasCheckpoint(InCurrent))
    => /\ last.ok
       /\ last.entries = AsEntries(FromLastCheckpoint(InCurrent))

C4_Witness ==
    /\ last.op = "ReadAllFromCurrent" /\ last.fromCheckpoint /\ last.ok
    /\ stats.clean /\ wal.buf = <<>>
    /\ wal.currentSegmentIndex = 0
    /\ Len(hist) = 3 /\ ~hist[1].cp /\ hist[2].cp /\ ~hist[3].cp
    /\ Len(last.entries) = 2

\* C5: when the current segment holds flushed records and none of them is a
\* checkpoint, ReadAllFromCurrent(true) succeeds with an empty sequence and
\* ReadAllFromCurrent(false) returns all the records in write order.
C5_CurrentWithoutCheckpoint ==
    (/\ last.op = "ReadAllFromCurrent"
     /\ stats.clean
     /\ wal.buf = <<>>
     /\ InCurrent # <<>>
     /\ ~HasCheckpoint(InCurrent))
    => /\ last.ok
       /\ last.entries = IF last.fromCheckpoint THEN <<>> ELSE AsEntries(InCurrent)

C5_Witness ==
    /\ last.op = "ReadAllFromCurrent" /\ last.fromCheckpoint /\ last.ok
    /\ stats.clean /\ wal.buf = <<>>
    /\ Len(InCurrent) >= 2 /\ ~HasCheckpoint(InCurrent)
    /\ last.entries = <<>>

\* C6: when no segment with index >= i contains a checkpoint record,
\* ReadAllFromIndex(i, true) succeeds with an empty sequence, not with the
\* unfiltered records of those segments.
C6_IndexWithoutCheckpoint ==
    (/\ last.op = "ReadAllFromIndex" /\ last.fromCheckpoint
     /\ stats.clean
     /\ wal.buf = <<>>
     /\ \A i \in DOMAIN files : i >= last.index => \A e \in Range(Stored(i)) : ~e.cp)
    => /\ last.ok
       /\ last.entries = <<>>

\* the frame of the record the last successful call appended
LastFrame(h) == Frame(AsEntry(h[Len(h)]))

\* what a successful write call does to the segments and the buffer
C7_Step ==
    (stats'.calls = stats.calls + 1 /\ last'.ok)
    => LET old == wal.currentSegment
           new == wal'.currentSegment
       IN IF Len(files[old]) + Len(wal.buf) >= wal.maxSegmentSize
          THEN /\ wal'.currentSegmentIndex = wal.currentSegmentIndex + 1
               /\ new = wal'.currentSegmentIndex
               /\ new \notin DOMAIN files
               /\ old \in DOMAIN files' => files'[old] = files[old] \o wal.buf
               /\ files'[new] \o wal'.buf = LastFrame(hist')
          ELSE /\ wal'.currentSegmentIndex = wal.currentSegmentIndex
               /\ new = old
               /\ files'[old] \o wal'.buf = files[old] \o wal.buf \o LastFrame(hist')

\* every segment is a run of whole frames, the current one once its buffered
\* bytes are added
C7_NoSplit ==
    stats.clean =>
        \A i \in DOMAIN files :
            IF wal.open /\ i = wal.currentSegment
            THEN WholeFrames(files[i] \o wal.buf, 0)
            ELSE WholeFrames(files[i], 0)

\* C7: a write issued while the size of the current segment plus the
\* buffered bytes is at least maxSegmentSize flushes the buffer into the old
\* segment, advances currentSegmentIndex by one, creates that segment empty
\* and frames the record into it; a write below the threshold keeps the
\* index; no frame is split across two segments.
C7_RotationStep == [][C7_Step]_vars /\ []C7_NoSplit

C7_Witness ==
    /\ last.op \in WriteOps /\ last.ok
    /\ wal.maxSegmentSize = 23
    /\ wal.currentSegmentIndex = 1
    /\ Len(files[0]) = wal.maxSegmentSize
    /\ files[1] \o wal.buf = LastFrame(hist)

\* C8: as long as retention has deleted no segment, after writes and
\* checkpoints (with any number of rotations) and a flush,
\* ReadAllFromIndex(0, false) returns every record ever written, each
\* exactly once.
C8_CompleteAcrossRotation ==
    (/\ last.op = "ReadAllFromIndex" /\ last.index = 0 /\ ~last.fromCheckpoint
     /\ stats.clean
     /\ ~stats.retired
     /\ wal.buf = <<>>)
    => /\ last.ok
       /\ Len(last.entries) = Len(hist)
       /\ \A k \in 1..Len(hist) :
              Cardinality({n \in 1..Len(last.entries) :
                              last.entries[n] = AsEntry(hist[k])}) = 1

C8_Witness ==
    /\ last.op = "ReadAllFromIndex" /\ last.index = 0 /\ ~last.fromCheckpoint
    /\ last.ok
    /\ stats.clean /\ ~stats.retired /\ wal.buf = <<>>
    /\ wal.currentSegmentIndex >= 1
    /\ Len(hist) = 3 /\ HasCheckpoint(hist)
    /\ Len(last.entries) = 3

\* C9: after any write returns, the directory holds at most
\* maxSegmentsNumber segment files.
C9_RetentionBound ==
    (last.op \in WriteOps /\ last.ok /\ stats.clean)
    => Cardinality(DOMAIN files) <= wal.maxSegmentsNumber

\* the record is stored whole in a segment file
OnDisk(h) == h.seg \in DOMAIN files /\ AsEntry(h) \in Range(Stored(h.seg))

\* C10: when CreateCheckpoint returns successfully, nothing but bytes of the
\* checkpoint's own frame is left in the buffer and every record accepted
\* earlier is in a segment file (unless retention removed its segment); a
\* checkpoint record is never on disk ahead of a lower-numbered record.
C10_CheckpointAfterFlush ==
    /\ (last.op = "CreateCheckpoint" /\ last.ok)
       => /\ IsSuffix(wal.buf, LastFrame(hist))
          /\ IsSuffix(LastFrame(hist), files[wal.currentSegment] \o wal.buf)
          /\ stats.clean =>
                \A k \in 1..(Len(hist) - 1) :
                    hist[k].seg \in DOMAIN files => OnDisk(hist[k])
    /\ stats.clean =>
          \A k \in 1..Len(hist) :
              (hist[k].cp /\ OnDisk(hist[k])) =>
                  \A j \in 1..(k - 1) : hist[j].seg \in DOMAIN files => OnDisk(hist[j])

C10_Witness ==
    /\ last.op = "CreateCheckpoint" /\ last.ok
    /\ stats.clean
    /\ Len(hist) = 3 /\ ~hist[1].cp /\ ~hist[2].cp
    /\ hist[2].seg = wal.currentSegment
    /\ OnDisk(hist[2])
    /\ wal.buf # <<>>

\* C13: a record written with any payload and checkpoint flag, flushed and
\* read back by ReadAllFromCurrent(false), decodes to the payload, the
\* sequence number and the checkpoint flag it was written with, and passes
\* the checksum verification (the read succeeds).
C13_RoundTrip ==
    (/\ last.op = "ReadAllFromCurrent" /\ ~last.fromCheckpoint
     /\ stats.clean
     /\ wal.buf = <<>>)
    => /\ last.ok
       /\ Len(last.entries) = Len(InCurrent)
       /\ \A k \in 1..Len(InCurrent) :
              /\ last.entries[k].data = InCurrent[k].data
              /\ last.entries[k].lsn = InCurrent[k].lsn
              /\ last.entries[k].cp = InCurrent[k].cp
              /\ isValidCRC(last.entries[k])

C13_Witness ==
    /\ last.op = "ReadAllFromCurrent" /\ ~last.fromCheckpoint /\ last.ok
    /\ stats.clean /\ wal.buf = <<>>
    /\ Len(last.entries) = 3
    /\ \E k \in 1..3 : last.entries[k].cp /\ last.entries[k].data = <<4>>
    /\ \E k \in 1..3 : ~last.entries[k].cp /\ last.entries[k].data = <<2, 3>>
    /\ \E k \in 1..3 : ~last.entries[k].cp /\ last.entries[k].data = <<1>>

\* C15: a Flush that follows a successful Flush directly, with no write or
\* checkpoint in between and no I/O failure of its own, returns no error and
\* leaves the segment files, the buffer, the sequence counter and the segment
\* index (the whole instance) as the first Flush left them.
C15_FlushIdempotent ==
    [][ (last'.op = "Flush" /\ last'.again /\ ~last'.injected)
        => (/\ last'.ok
            /\ files' = files
            /\ wal'.buf = wal.buf
            /\ wal'.lastSequenceNumber = wal.lastSequenceNumber
            /\ wal'.currentSegmentIndex = wal.currentSegmentIndex
            /\ wal' = wal) ]_vars

C15_Witness ==
    /\ last.op = "Flush" /\ last.again /\ ~last.injected /\ last.ok
    /\ wal.buf = <<>>
    /\ Len(hist) >= 2
    /\ \A k \in 1..Len(hist) : OnDisk(hist[k])

\* the file ends in a frame whose length field is whole and declares more
\* body bytes than the file holds
RECURSIVE TornFinalFrame(_, _)
TornFinalFrame(file, pos) ==
    /\ Len(file) - pos >= 4
    /\ IF Len(file) - pos - 4 < UnLE4(file, pos) THEN TRUE
       ELSE TornFinalFrame(file, pos + 4 + UnLE4(file, pos))

\* the segment GetWAL binds to, when the directory has one
HasLastSegment(fs) == DOMAIN fs # {} /\ LastSegmentId(fs) \in DOMAIN fs

\* C20: when the last frame of the segment GetWAL binds to declares more
\* body bytes than are on disk, GetWAL returns an error and no instance; the
\* directory is left as it was (no truncation), and no counter is started,
\* neither at the previous whole frame nor at 0.
C20_TornFinalFrameAtOpen ==
    [][ (/\ last'.op = "GetWAL" /\ ~last'.injected
         /\ HasLastSegment(files)
         /\ TornFinalFrame(files[LastSegmentId(files)], 0))
        => (/\ ~last'.ok
            /\ ~wal'.open
            /\ files' = files) ]_vars

C20_Witness ==
    /\ last.op = "GetWAL" /\ ~last.injected /\ ~last.ok
    /\ ~wal.open
    /\ HasLastSegment(files)
    /\ TornFinalFrame(files[LastSegmentId(files)], 0)
    /\ Len(Stored(LastSegmentId(files))) >= 1

\* the reads, the segments the last read scanned, the entries as written
ReadOps == {"ReadAllFromCurrent", "ReadAllFromIndex"}

ScannedByLast ==
    IF last.op = "ReadAllFromCurrent" THEN {wal.currentSegment} \cap DOMAIN files
    ELSE {i \in DOMAIN files : i >= last.index}

Originals == {AsEntry(hist[k]) : k \in 1..Len(hist)}

\* the segments that hold a record that is not as it was written
AlteredSegments ==
    {i \in DOMAIN files : \E e \in Range(Stored(i)) : e \notin Originals}

\* C14: when one byte of the payload of a record stored in a segment was
\* altered after the record was written, every read that scans that segment
\* (ReadAllFromCurrent, ReadAllFromIndex, with or without the checkpoint
\* filter) returns an error, and no entry it returns carries the altered
\* payload: each returned entry is a record as it was written.
C14_CorruptionDetected ==
    (last.op \in ReadOps /\ ScannedByLast \cap AlteredSegments # {})
    => /\ ~last.ok
       /\ \A e \in Range(last.entries) : e \in Originals

C14_Witness ==
    /\ last.op = "ReadAllFromIndex" /\ ~last.ok
    /\ ScannedByLast \cap AlteredSegments # {}
    /\ Len(last.entries) >= 2
    /\ \E i \in AlteredSegments : Len(Stored(i)) = 2 /\ Stored(i)[2] \notin Originals

\* C16: for any set of segment indices on disk, ReadAllFromIndex(i, false)
\* returns the records in strictly increasing sequence-number order (the
\* segments are processed in increasing numeric index).
C16_NumericSegmentOrder ==
    (/\ last.op = "ReadAllFromIndex" /\ ~last.fromCheckpoint
     /\ stats.clean
     /\ wal.buf = <<>>)
    => /\ last.ok
       /\ \A a \in 1..Len(last.entries), b \in 1..Len(last.entries) :
              a < b => last.entries[a].lsn < last.entries[b].lsn

\* the accepted records in the segments on disk with index >= i
FromIndex(i) == SelectSeq(hist, LAMBDA h : h.seg \in DOMAIN files /\ h.seg >= i)

\* the sequence number of the highest-numbered checkpoint among records
HighestCheckpoint(hs) == Max({hs[k].lsn : k \in {n \in 1..Len(hs) : hs[n].cp}})

\* the records of the segments with index >= i from the highest-numbered
\* checkpoint among them on
FromCheckpointAcross(i) ==
    SelectSeq(FromIndex(i), LAMBDA h : h.lsn >= HighestCheckpoint(FromIndex(i)))

\* C17: when a segment with index >= i holds a checkpoint,
\* ReadAllFromIndex(i, true) returns exactly the records of the segments with
\* index >= i whose sequence number is at least that of the highest-numbered
\* checkpoint among them, each once, that checkpoint first: earlier records
\* are left out and the records of later segments are kept.
C17_CheckpointAcrossSegments ==
    (/\ last.op = "ReadAllFromIndex" /\ last.fromCheckpoint
     /\ stats.clean
     /\ wal.buf = <<>>
     /\ HasCheckpoint(FromIndex(last.index)))
    => /\ last.ok
       /\ Len(last.entries) = Len(FromCheckpointAcross(last.index))
       /\ Range(last.entries) = Range(AsEntries(FromCheckpointAcross(last.index)))
       /\ last.entries[1] = AsEntry(FromCheckpointAcross(last.index)[1])

\* a thread is inside an operation that mutates the buffer, the segment
\* handle, the sequence counter or the segment index
Mutating(t) ==
    IF t = Task THEN pc[t] = "flush"
    ELSE pc[t] \in {"write.cs", "flush.cs", "close.flush", "close.release"}

\* C11: under every interleaving of the callers and the background task, no
\* two threads are inside a mutating operation (write, checkpoint, explicit
\* Flush, periodic flush, the flush and the handle release of Close) at the
\* same time.
C11_MutualExclusion ==
    \A s \in Threads, t \in Threads :
        s # t => ~(Mutating(s) /\ Mutating(t))

\* the records accepted before Close was called
AcceptedBeforeClose == { hist[k] : k \in 1..obs.closedAt }

\* C12: the background task never flushes while Close performs its final
\* flush, nor after Close has released the segment handle, and once Close
\* has returned successfully every record accepted before it is on disk.
C12_CleanShutdown ==
    /\ \A c \in Callers : ~(pc[c] = "close.flush" /\ pc[Task] = "flush")
    /\ ~(pc[Task] = "flush" /\ ~wal.handleOpen)
    /\ \A c \in Callers :
        pc[c] = "closed" =>
            \A h \in AcceptedBeforeClose : h.seg \in DOMAIN files => OnDisk(h)

\* no caller is in a call that could re-arm the timer
CallersAway == \A c \in Callers : pc[c] \in {"idle", "closed", "close.failed"}

\* C18: after a periodic flush has failed and its error has been logged,
\* with the log not closed and no call of a caller in progress, the
\* background task is back at its wait point with another tick to come:
\* the timer is armed.
C18_TicksAfterFailedFlush ==
    (obs.logged /\ ~wal.ctxDone /\ CallersAway /\ pc[Task] = "select")
        => TimerReady

\* C19: after Close has signalled cancellation the background task starts
\* at most one more periodic flush.
C19_AtMostOneFlushAfterSignal == obs.afterSignal <= 1

\* the other two parts of the scheduler's termination: the task exits only
\* from its wait point, and once cancellation is signalled it exits
ExitsFromWaitPoint ==
    [][pc'[Task] = "exited" => pc[Task] \in {"select", "exited"}]_vars

ExitsAfterSignal == wal.ctxDone ~> pc[Task] = "exited"

\* where the whole frames of a file end
RECURSIVE FramesEnd(_, _)
FramesEnd(file, pos) ==
    IF Len(file) - pos < 4 THEN pos
    ELSE IF Len(file) - pos - 4 < UnLE4(file, pos) THEN pos
    ELSE FramesEnd(file, pos + 4 + UnLE4(file, pos))

\* the last full scan could open the files it was asked to read
ScanOpened ==
    last.op = "ReadAllFromCurrent" => wal.currentSegment \in DOMAIN files

\* C21: a full scan (ReadAllFromCurrent, ReadAllFromIndex) of segments the
\* log wrote returns without error exactly when every scanned file ends on a
\* frame boundary; when a file ends inside a length field or inside a frame
\* body the scan returns an error, it does not succeed with the records that
\* precede the torn frame.
C21_TornSegmentScan ==
    (last.op \in ReadOps /\ ScanOpened)
        => (last.ok <=> \A i \in ScannedByLast : WholeFrames(files[i], 0))

\* a scan failed on a file that holds whole records and then ends inside a
\* length field
C21_Witness ==
    /\ last.op \in ReadOps /\ ScanOpened /\ ~last.ok
    /\ \E i \in ScannedByLast :
        /\ Stored(i) # <<>>
        /\ Len(files[i]) - FramesEnd(files[i], 0) \in 1..3

\* the lowest segment index in the directory
OldestSegment(fs) == CHOOSE i \in DOMAIN fs : \A j \in DOMAIN fs : i <= j

\* the files a step removes from the directory
Removed == DOMAIN files \ DOMAIN files'

\* a write or checkpoint call succeeds, rotating to an index above the
\* retention count
RetiringRotation ==
    /\ wal.open /\ wal'.open
    /\ stats'.calls = stats.calls + 1 /\ last'.ok
    /\ wal'.currentSegmentIndex = wal.currentSegmentIndex + 1
    /\ wal'.currentSegmentIndex > wal.maxSegmentsNumber
    /\ DOMAIN files # {}

\* C22: retention looks at indices only: a step removes no file but the
\* lowest-index one, and every successful rotation to an index above the
\* retention count removes the lowest-index file, whatever it contains (the
\* most recent checkpoint included).
C22_RetentionByIndexOnly ==
    [][ /\ (Removed # {} => Removed = {OldestSegment(files)})
        /\ (RetiringRotation => Removed = {OldestSegment(files)}) ]_vars

\* the position in the history of the most recent checkpoint
LastCheckpoint == Max({k \in 1..Len(hist) : hist[k].cp})

\* rotation has deleted the segment of the most recent checkpoint while a
\* record written after that checkpoint is on disk
C22_Witness ==
    /\ last.op \in WriteOps /\ last.ok /\ stats.clean
    /\ HasCheckpoint(hist)
    /\ hist[LastCheckpoint].seg \notin DOMAIN files
    /\ \E k \in (LastCheckpoint + 1)..Len(hist) : OnDisk(hist[k])

\* C23: when WriteEntry or CreateCheckpoint returns an error,
\* lastSequenceNumber is what it was before the call, and a successful call
\* numbers its record one above the last record accepted by the instance.
C23_FailedWriteKeepsNumber ==
    [][ (wal.open /\ wal'.open /\ stats'.calls = stats.calls + 1)
        => /\ (~last'.ok => wal'.lastSequenceNumber = wal.lastSequenceNumber)
           /\ (last'.ok => wal'.lastSequenceNumber = wal.lastSequenceNumber + 1) ]_vars

\* the index names the highest segment file and the handle is open on it
IndexAndHandle(fs, w) ==
    /\ w.open
    /\ DOMAIN fs # {}
    /\ w.currentSegmentIndex = Max(DOMAIN fs)
    /\ w.currentSegment = w.currentSegmentIndex
    /\ w.handleOpen

\* C24: a write or checkpoint call (with the rotation it may perform) that
\* starts with currentSegmentIndex the highest index of the directory and an
\* open handle on that file ends that way, whether it returns an error or
\* not.
C24_IndexHandleConsistency ==
    [][ (stats'.calls = stats.calls + 1 /\ IndexAndHandle(files, wal))
        => IndexAndHandle(files', wal') ]_vars

====
